---- MODULE Spec2Model ----
(***************************************************************************)
(* A model of the I18n translator of src/i18n.py: a cache of per-locale    *)
(* translation tables loaded from YAML files, a current locale, a nested   *)
(* dot-separated key lookup with fallback to the default locale and then   *)
(* to the key, and sequential placeholder substitution.                    *)
(*                                                                         *)
(* Python strings are sequences of one-character strings.  Python values   *)
(* (what yaml.safe_load yields, what t returns) are records                *)
(* [kind, text, kids]: kind "str" carries text, kind "map" carries kids    *)
(* (a function from key strings to values), kind "none" is None.           *)
(***************************************************************************)
EXTENDS Integers, Sequences, FiniteSets, TLC

\* ------------------------------------------------------------------------
\* Bounds of the model
\* ------------------------------------------------------------------------

\* longest substitution mapping (kwargs) passed to t
MaxSubs == 2

\* most load attempts from storage counted per locale
MaxReads == 2

\* ------------------------------------------------------------------------
\* Python values
\* ------------------------------------------------------------------------

NoKids == [k \in {} |-> 0]

None == [kind |-> "none", text |-> <<>>, kids |-> NoKids]

Str(s) == [kind |-> "str", text |-> s, kids |-> NoKids]

Map(kids) == [kind |-> "map", text |-> <<>>, kids |-> kids]

\* the {} that dict.get falls back to in t
EmptyDict == Map(NoKids)

\* ------------------------------------------------------------------------
\* str methods
\* ------------------------------------------------------------------------

StartsWith(s, old) ==
    /\ Len(old) <= Len(s)
    /\ SubSeq(s, 1, Len(old)) = old

RECURSIVE Replace(_, _, _)
\* s.replace(old, new) for a non-empty old: every non-overlapping occurrence,
\* scanning left to right
Replace(s, old, new) ==
    IF Len(s) < Len(old) THEN s
    ELSE IF StartsWith(s, old)
         THEN new \o Replace(SubSeq(s, Len(old) + 1, Len(s)), old, new)
         ELSE <<Head(s)>> \o Replace(Tail(s), old, new)

RECURSIVE Split(_)
\* key_path.split(".")
Split(s) ==
    IF \E i \in 1..Len(s) : s[i] = "."
    THEN LET i == CHOOSE j \in 1..Len(s) :
                      /\ s[j] = "."
                      /\ \A h \in 1..(j - 1) : s[h] /= "."
         IN <<SubSeq(s, 1, i - 1)>> \o Split(SubSeq(s, i + 1, Len(s)))
    ELSE <<s>>

Digit(d) == <<"0", "1", "2", "3", "4", "5", "6", "7", "8", "9">>[d + 1]

RECURSIVE Digits(_)
Digits(n) == IF n < 10 THEN <<Digit(n)>> ELSE Digits(n \div 10) \o <<Digit(n % 10)>>

\* str(v) of a keyword value: a str is itself, an int is its decimal form
\* (a "bad" value is one whose __str__ raises; see StrRaises)
ToStr(v) ==
    CASE v.kind = "str" -> v.text
      [] v.kind = "int" -> IF v.num < 0 THEN <<"-">> \o Digits(0 - v.num) ELSE Digits(v.num)
      [] OTHER -> <<>>

StrRaises(v) == v.kind = "bad"

\* ------------------------------------------------------------------------
\* Inputs: locales, translation files, keys, substitutions
\* ------------------------------------------------------------------------

En == <<"e", "n">>
Fr == <<"f", "r">>
Xx == <<"x", "x">>

Locales == {En, Fr, Xx}

\* keys of the translation documents
KG == <<"g">>
KQ == <<"q">>
KE == <<"e">>
KV == <<"v">>
KL == <<"l">>
KZ == <<"z">>

\* g: "Hi {a}!"   q: "V '{b}' \"{a}\""   z: "Z"
\* e: {v: {l: "TS"}}
DocEn ==
    Map(  (KG :> Str(<<"H", "i", " ", "{", "a", "}", "!">>))
       @@ (KQ :> Str(<<"V", " ", "'", "{", "b", "}", "'", " ", "\"", "{", "a", "}", "\"">>))
       @@ (KZ :> Str(<<"Z">>))
       @@ (KE :> Map(KV :> Map(KL :> Str(<<"T", "S">>)))))

\* g: "Yo {c}{b}"   z: ""   e: "E"   q: ~
DocFr ==
    Map(  (KG :> Str(<<"Y", "o", " ", "{", "c", "}", "{", "b", "}">>))
       @@ (KZ :> Str(<<>>))
       @@ (KE :> Str(<<"E">>))
       @@ (KQ :> None))

\* what open + yaml.safe_load do with a translation file: the file is absent
\* (open raises), malformed (safe_load raises), or holds a document; an empty
\* file is the document None
Absent == [state |-> "absent", doc |-> None]
Malformed == [state |-> "malformed", doc |-> None]
Holds(doc) == [state |-> "ok", doc |-> doc]

DefaultDir == <<"l", "o", "c", "a", "l", "e", "s">>

\* os.path.join(translations_dir, f"{locale}.yml")
FilePath(dir, locale) ==
    LET name == locale \o <<".", "y", "m", "l">>
    IN IF Len(name) > 0 /\ Head(name) = "/" THEN name
       ELSE IF Len(dir) = 0 \/ dir[Len(dir)] = "/" THEN dir \o name
       ELSE dir \o <<"/">> \o name

\* the translation directories considered: en.yml holds the English
\* document; fr.yml holds the French document, is empty, or is malformed;
\* there is no xx.yml
FileSystems ==
    { (FilePath(DefaultDir, En) :> Holds(DocEn))
        @@ (FilePath(DefaultDir, Fr) :> fr)
        @@ (FilePath(DefaultDir, Xx) :> Absent) :
      fr \in {Holds(DocFr), Holds(None), Malformed} }

\* the keys passed to t
Keys ==
    { KG, KQ, KZ, KE,
      <<"e", ".", "v">>,
      <<"e", ".", "v", ".", "l">>,
      <<"{", "a", "}">> }

\* keyword values: a str, an int, an object whose __str__ raises
StrV(s) == [kind |-> "str", text |-> s, num |-> 0]
IntV(n) == [kind |-> "int", text |-> <<>>, num |-> n]
BadV == [kind |-> "bad", text |-> <<>>, num |-> 0]

NA == <<"a">>
NB == <<"b">>
NC == <<"c">>

\* the (name, value) entries a kwargs mapping is made of
Entries ==
    { [name |-> NA, value |-> StrV(<<"{", "b", "}">>)],
      [name |-> NB, value |-> IntV(42)],
      [name |-> NC, value |-> StrV(<<"{", "a", "}">>)],
      [name |-> NC, value |-> BadV] }

RECURSIVE SeqsUpTo(_, _)
SeqsUpTo(S, n) ==
    IF n = 0 THEN {<<>>}
    ELSE LET shorter == SeqsUpTo(S, n - 1)
         IN shorter \cup {Append(q, e) : q \in shorter, e \in S}

\* kwargs is a dict: its entries in iteration order, no name twice
Kwargs ==
    {q \in SeqsUpTo(Entries, MaxSubs) :
        \A i, j \in 1..Len(q) : i /= j => q[i].name /= q[j].name}

\* ------------------------------------------------------------------------
\* The translator
\* ------------------------------------------------------------------------

VARIABLES
    files,              \* storage: file path -> what reading the file gives
    translations_dir,   \* self.translations_dir
    default_locale,     \* self.default_locale
    translations_cache, \* self._translations_cache: locale -> document
    current_locale,     \* self._current_locale
    reads,              \* per locale, the load attempts made from storage
    loaded,             \* per locale, the loads that succeeded
    lastOp,             \* the operation last carried out
    lastSet,            \* the locale of the most recent set_locale call
    lastOk,             \* the locale of the most recent set_locale call that returned
    lastKey,            \* the key of the last t call
    lastSubs,           \* the kwargs of the last t call
    result,             \* the value the last t call returned
    raised              \* whether the last operation raised

vars ==
    <<files, translations_dir, default_locale, translations_cache, current_locale,
      reads, loaded, lastOp, lastSet, lastOk, lastKey, lastSubs, result, raised>>

\* _load_translations_for_locale without the "not in cache" test: every call
\* goes to storage
LoadAlways(cache, rd, ld, locale) ==
    LET file == files[FilePath(translations_dir, locale)]
        rd1 == [rd EXCEPT ![locale] = @ + 1]
    IN IF file.state = "ok"
       THEN [cache |-> (locale :> file.doc) @@ cache,
             reads |-> rd1,
             loaded |-> [ld EXCEPT ![locale] = @ + 1],
             raised |-> FALSE]
       ELSE [cache |-> cache, reads |-> rd1, loaded |-> ld, raised |-> TRUE]

\* _load_translations_for_locale catching the load error and caching an empty
\* table in its place
LoadSwallowsError(cache, rd, ld, locale) ==
    IF locale \in DOMAIN cache
    THEN [cache |-> cache, reads |-> rd, loaded |-> ld, raised |-> FALSE]
    ELSE LET file == files[FilePath(translations_dir, locale)]
             rd1 == [rd EXCEPT ![locale] = @ + 1]
         IN IF file.state = "ok"
            THEN [cache |-> cache @@ (locale :> file.doc),
                  reads |-> rd1,
                  loaded |-> [ld EXCEPT ![locale] = @ + 1],
                  raised |-> FALSE]
            ELSE [cache |-> cache @@ (locale :> EmptyDict),
                  reads |-> rd1, loaded |-> ld, raised |-> FALSE]

\* _load_translations_for_locale, as the state it leaves: the cache, the
\* storage accesses, and whether open or yaml.safe_load raised
LoadTranslationsForLocale(cache, rd, ld, locale) ==
    IF locale \in DOMAIN cache
    THEN [cache |-> cache, reads |-> rd, loaded |-> ld, raised |-> FALSE]
    ELSE LET file == files[FilePath(translations_dir, locale)]
             rd1 == [rd EXCEPT ![locale] = @ + 1]
         IN IF file.state = "ok"
            THEN [cache |-> cache @@ (locale :> file.doc),
                  reads |-> rd1,
                  loaded |-> [ld EXCEPT ![locale] = @ + 1],
                  raised |-> FALSE]
            ELSE [cache |-> cache, reads |-> rd1, loaded |-> ld, raised |-> TRUE]

\* whether _load_translations_for_locale would go to storage
WouldRead(locale) == locale \notin DOMAIN translations_cache

NoCache == [l \in {} |-> None]

Zero == [l \in Locales |-> 0]

\* __init__ returned: the default locale's file was read and cached
Init ==
    /\ translations_dir = DefaultDir
    /\ files \in FileSystems
    /\ default_locale \in Locales
    /\ current_locale = default_locale
    /\ LET r == LoadTranslationsForLocale(NoCache, Zero, Zero, default_locale)
       IN /\ ~r.raised
          /\ translations_cache = r.cache
          /\ reads = r.reads
          /\ loaded = r.loaded
    /\ lastOp = "init"
    /\ lastSet = default_locale
    /\ lastOk = default_locale
    /\ lastKey = <<>>
    /\ lastSubs = <<>>
    /\ result = None
    /\ raised = FALSE

\* set_locale loading first and assigning the current locale only when the
\* load returned
SetLocaleLoadFirst(locale) ==
    /\ WouldRead(locale) => reads[locale] < MaxReads
    /\ LET r == LoadTranslationsForLocale(translations_cache, reads, loaded, locale)
       IN /\ translations_cache' = r.cache
          /\ reads' = r.reads
          /\ loaded' = r.loaded
          /\ raised' = r.raised
          /\ lastOk' = IF r.raised THEN lastOk ELSE locale
          /\ current_locale' = IF r.raised THEN current_locale ELSE locale
    /\ lastOp' = "set_locale"
    /\ lastSet' = locale
    /\ lastKey' = <<>>
    /\ lastSubs' = <<>>
    /\ result' = None
    /\ UNCHANGED <<files, translations_dir, default_locale>>

\* set_locale(locale)
set_locale(locale) ==
    /\ WouldRead(locale) => reads[locale] < MaxReads
    /\ current_locale' = locale
    /\ LET r == LoadTranslationsForLocale(translations_cache, reads, loaded, locale)
       IN /\ translations_cache' = r.cache
          /\ reads' = r.reads
          /\ loaded' = r.loaded
          /\ raised' = r.raised
          /\ lastOk' = IF r.raised THEN lastOk ELSE locale
    /\ lastOp' = "set_locale"
    /\ lastSet' = locale
    /\ lastKey' = <<>>
    /\ lastSubs' = <<>>
    /\ result' = None
    /\ UNCHANGED <<files, translations_dir, default_locale>>

RECURSIVE Walk(_, _, _)
\* the loop of _get_nested_value from the i-th key on
Walk(current_data, keys, i) ==
    IF i > Len(keys) THEN current_data
    ELSE IF current_data.kind = "map" /\ keys[i] \in DOMAIN current_data.kids
         THEN Walk(current_data.kids[keys[i]], keys, i + 1)
         ELSE None

\* _get_nested_value(data, key_path)
GetNestedValue(data, key_path) == Walk(data, Split(key_path), 1)

\* self._translations_cache.get(locale, {})
CacheGet(cache, locale) == IF locale \in DOMAIN cache THEN cache[locale] ELSE EmptyDict

\* the three replacements t makes for one kwargs entry
ReplaceEntry(s, e) ==
    LET k == <<"{">> \o e.name \o <<"}">>
        v == ToStr(e.value)
        s1 == Replace(s, k, v)
        s2 == Replace(s1, <<"'">> \o k \o <<"'">>, v)
    IN Replace(s2, <<"\"">> \o k \o <<"\"">>, v)

RECURSIVE ParallelPass(_, _)
\* one left-to-right pass over the template replacing each {name} of subs
\* where it stands, never looking at inserted text again
ParallelPass(s, subs) ==
    IF s = <<>> THEN <<>>
    ELSE LET hits == {i \in 1..Len(subs) :
                         StartsWith(s, <<"{">> \o subs[i].name \o <<"}">>)}
         IN IF hits = {}
            THEN <<Head(s)>> \o ParallelPass(Tail(s), subs)
            ELSE LET i == CHOOSE h \in hits : \A g \in hits : h <= g
                     k == <<"{">> \o subs[i].name \o <<"}">>
                 IN ToStr(subs[i].value)
                        \o ParallelPass(SubSeq(s, Len(k) + 1, Len(s)), subs)

\* the substitution done as a single parallel pass over the template
ReplaceAllParallel(s, subs, i) == ParallelPass(s, subs)

RECURSIVE ReplaceAll(_, _, _)
\* the for loop of t over kwargs.items() from the i-th entry on
ReplaceAll(s, subs, i) ==
    IF i > Len(subs) THEN s ELSE ReplaceAll(ReplaceEntry(s, subs[i]), subs, i + 1)

\* the try block of t: str.replace on a message that is no str, or str(v) of
\* a value that cannot be converted, raises in the first iteration that
\* reaches it, and the except clause returns the message as found
FormatMessage(message, subs) ==
    IF subs = <<>> THEN message
    ELSE IF message.kind /= "str" \/ \E i \in 1..Len(subs) : StrRaises(subs[i].value)
         THEN message
         ELSE Str(ReplaceAll(message.text, subs, 1))

\* Python truthiness of a value: None, "" and {} are falsy
Falsy(v) ==
    \/ v.kind = "none"
    \/ v.kind = "str" /\ v.text = <<>>
    \/ v.kind = "map" /\ DOMAIN v.kids = {}

\* the lookup of t testing "not message" where it tests "message is None"
FindMessageFalsy(key) ==
    LET message == GetNestedValue(CacheGet(translations_cache, current_locale), key)
    IN IF Falsy(message) /\ current_locale /= default_locale
       THEN GetNestedValue(CacheGet(translations_cache, default_locale), key)
       ELSE message

\* the message t settles on: the current locale's, else the default locale's
FindMessage(key) ==
    LET message == GetNestedValue(CacheGet(translations_cache, current_locale), key)
    IN IF message = None /\ current_locale /= default_locale
       THEN GetNestedValue(CacheGet(translations_cache, default_locale), key)
       ELSE message

\* t substituting into the key it falls back to
TranslateFormatsKey(key, subs) ==
    LET message == FindMessage(key)
    IN IF message = None THEN FormatMessage(Str(key), subs)
       ELSE FormatMessage(message, subs)

\* what t(key, **kwargs) returns
Translate(key, subs) ==
    LET message == FindMessage(key)
    IN IF message = None THEN Str(key) ELSE FormatMessage(message, subs)

\* t loading the current locale's table itself when the cache lacks it
TranslateLoads(key, subs) ==
    /\ WouldRead(current_locale) => reads[current_locale] < MaxReads
    /\ LET r == LoadTranslationsForLocale(translations_cache, reads, loaded,
                                          current_locale)
       IN /\ translations_cache' = r.cache
          /\ reads' = r.reads
          /\ loaded' = r.loaded
    /\ result' = Translate(key, subs)
    /\ raised' = FALSE
    /\ lastOp' = "t"
    /\ lastKey' = key
    /\ lastSubs' = subs
    /\ UNCHANGED <<files, translations_dir, default_locale, current_locale,
                   lastSet, lastOk>>

\* t(key, **kwargs)
t(key, subs) ==
    /\ result' = Translate(key, subs)
    /\ raised' = FALSE
    /\ lastOp' = "t"
    /\ lastKey' = key
    /\ lastSubs' = subs
    /\ UNCHANGED <<files, translations_dir, default_locale, translations_cache,
                   current_locale, reads, loaded, lastSet, lastOk>>

Next ==
    \/ \E locale \in Locales : set_locale(locale)
    \/ \E key \in Keys, subs \in Kwargs : t(key, subs)

Spec == Init /\ [][Next]_vars

\* ------------------------------------------------------------------------
\* Properties
\* ------------------------------------------------------------------------

\* what the last key resolves to in the current and in the default locale's
\* cached table
InCurrent == GetNestedValue(CacheGet(translations_cache, current_locale), lastKey)
InDefault == GetNestedValue(CacheGet(translations_cache, default_locale), lastKey)

RECURSIVE Contains(_, _)
Contains(s, sub) ==
    IF Len(s) < Len(sub) THEN FALSE
    ELSE StartsWith(s, sub) \/ Contains(Tail(s), sub)

Placeholder(name) == <<"{">> \o name \o <<"}">>

\* C1: t uses the current locale's message whenever the key resolves there,
\* whatever the default locale holds under that key, and the default
\* locale's message when the key resolves only there.
CurrentLocaleTakesPrecedence ==
    lastOp = "t" =>
        /\ InCurrent /= None => result = FormatMessage(InCurrent, lastSubs)
        /\ (InCurrent = None /\ current_locale /= default_locale /\ InDefault /= None)
               => result = FormatMessage(InDefault, lastSubs)

\* t ran on a key that both locales resolve, to different messages, one of
\* them the empty string
PrecedenceCase ==
    /\ lastOp = "t"
    /\ current_locale /= default_locale
    /\ InCurrent = Str(<<>>)
    /\ InDefault.kind = "str"
    /\ InDefault /= InCurrent
    /\ result = InCurrent

\* C2: for a key that resolves in neither the current nor the default
\* locale's table, t returns the key itself whatever the substitutions.
MissingKeyReturnsKey ==
    (lastOp = "t" /\ InCurrent = None /\ InDefault = None) => result = Str(lastKey)

\* t ran on the unresolved key "{a}" with a substitution for a
MissingKeyCase ==
    /\ lastOp = "t"
    /\ InCurrent = None
    /\ InDefault = None
    /\ lastKey = Placeholder(NA)
    /\ \E i \in 1..Len(lastSubs) : lastSubs[i].name = NA
    /\ result = Str(lastKey)

\* C3: a key whose path is consumed on a nested mapping counts as not found,
\* and t returns the key string.
NestedMappingReturnsKey ==
    (lastOp = "t" /\ InCurrent.kind = "map" /\ InDefault.kind /= "str")
        => result = Str(lastKey)

\* the replacements of one entry as documented: the quoted forms go with
\* their quotes, then the bare form
QuotedFirst(s, e) ==
    LET k == Placeholder(e.name)
        v == ToStr(e.value)
        s1 == Replace(s, <<"'">> \o k \o <<"'">>, v)
        s2 == Replace(s1, <<"\"">> \o k \o <<"\"">>, v)
    IN Replace(s2, k, v)

\* C4: a placeholder in single or double quotes is replaced by the bare
\* value, the quotes removed with it.
QuotedPlaceholderLosesQuotes ==
    (/\ lastOp = "t"
     /\ FindMessage(lastKey).kind = "str"
     /\ Len(lastSubs) = 1
     /\ ~StrRaises(lastSubs[1].value))
        => result = Str(QuotedFirst(FindMessage(lastKey).text, lastSubs[1]))

\* C5 as stated: the current locale is that of the most recent set_locale
\* call that succeeded, or the default locale.
CurrentLocaleIsLastSuccessful == current_locale = lastOk

\* C5 amended: the current locale is that of the most recent set_locale
\* call, whether it succeeded or raised, or the default locale if there was
\* none.
CurrentLocaleIsLastSet == current_locale = lastSet

\* a set_locale call raised and the current locale is its argument
FailedSetLocaleCase ==
    /\ lastOp = "set_locale"
    /\ raised
    /\ current_locale = lastSet
    /\ current_locale /= lastOk

\* C6: set_locale on a locale whose file cannot be loaded raises, leaves that
\* locale current and uncached; t then returns, without raising, the default
\* locale's message when the key resolves there and the key otherwise.
FailedSetLocaleFallsThrough ==
    /\ (/\ lastOp = "set_locale"
        /\ files[FilePath(translations_dir, lastSet)].state /= "ok")
           => /\ raised
              /\ current_locale = lastSet
              /\ lastSet \notin DOMAIN translations_cache
    /\ (lastOp = "t" /\ current_locale \notin DOMAIN translations_cache)
           => /\ ~raised
              /\ result = IF InDefault /= None
                          THEN FormatMessage(InDefault, lastSubs)
                          ELSE Str(lastKey)

\* t ran with an unloaded current locale and returned the default locale's
\* message
FallThroughCase ==
    /\ lastOp = "t"
    /\ current_locale \notin DOMAIN translations_cache
    /\ lastSubs = <<>>
    /\ InDefault.kind = "str"
    /\ result = InDefault

\* C7: a load of a locale that has a cache entry returns the cached table and
\* reads nothing: once cached, a locale's file is never read again.
CacheHitReadsNothing ==
    [][ /\ \A l \in DOMAIN translations_cache : reads'[l] = reads[l]
        /\ (lastOp' = "set_locale" /\ lastSet' \in DOMAIN translations_cache)
               => /\ ~raised'
                  /\ reads' = reads
                  /\ translations_cache' = translations_cache ]_vars

\* set_locale switched away from the default locale and back, and the
\* default locale's file was read once
BackToCachedCase ==
    /\ lastOp = "set_locale"
    /\ lastSet = default_locale
    /\ reads[default_locale] = 1
    /\ \E l \in DOMAIN translations_cache : l /= default_locale

\* C8 as stated: at most one load attempt per locale, failed attempts
\* counted.
AtMostOneLoadAttempt == \A l \in Locales : reads[l] <= 1

\* C8 amended: at most one load per locale succeeds; a failed attempt leaves
\* no cache entry, so the next set_locale for that locale reads again.
AtMostOneSuccessfulLoad ==
    \A l \in Locales :
        /\ loaded[l] <= 1
        /\ l \in DOMAIN translations_cache <=> loaded[l] = 1

\* a locale was read twice, both attempts failing, beside a locale loaded once
RepeatedFailedLoadCase ==
    \E l, m \in Locales :
        /\ reads[l] = 2
        /\ loaded[l] = 0
        /\ reads[m] = 1
        /\ loaded[m] = 1

\* C9: the cache changes only by a successful load adding an entry for a
\* locale that had none; no entry is removed or replaced, and t neither adds
\* an entry nor reads storage.
CacheOnlyGrowsByLoad ==
    [][ /\ \A l \in DOMAIN translations_cache :
               /\ l \in DOMAIN translations_cache'
               /\ translations_cache'[l] = translations_cache[l]
        /\ translations_cache' /= translations_cache
               => /\ lastOp' = "set_locale"
                  /\ ~raised'
                  /\ lastSet' \notin DOMAIN translations_cache
                  /\ DOMAIN translations_cache' = DOMAIN translations_cache \cup {lastSet'}
                  /\ loaded'[lastSet'] = loaded[lastSet'] + 1
        /\ lastOp' = "t"
               => /\ translations_cache' = translations_cache
                  /\ reads' = reads
                  /\ loaded' = loaded ]_vars

\* t ran while the current locale had no cached table, and the cache, grown
\* to two locales by then, still lacks it
UnloadedTranslateCase ==
    /\ lastOp = "t"
    /\ current_locale \notin DOMAIN translations_cache
    /\ Cardinality(DOMAIN translations_cache) = 2

\* a value whose text can neither hold nor complete a placeholder
Plain(v) ==
    /\ ~StrRaises(v)
    /\ ToStr(v) /= <<>>
    /\ \A i \in 1..Len(ToStr(v)) : ToStr(v)[i] \notin {"{", "}", "'", "\""}

\* C10: the substitutions are applied one after the other in iteration
\* order, each to the string the earlier ones produced: the result is the
\* last entry's replacements applied to the result of the entries before it,
\* so no placeholder of a last entry with a plain value survives, not even
\* one that an earlier entry's value brought in.
SubstitutionIsSequential ==
    (/\ lastOp = "t"
     /\ FindMessage(lastKey).kind = "str"
     /\ lastSubs /= <<>>
     /\ \A i \in 1..Len(lastSubs) : ~StrRaises(lastSubs[i].value))
        => LET n == Len(lastSubs)
               before == FormatMessage(FindMessage(lastKey), SubSeq(lastSubs, 1, n - 1))
           IN /\ result = Str(ReplaceEntry(before.text, lastSubs[n]))
              /\ Plain(lastSubs[n].value)
                     => ~Contains(result.text, Placeholder(lastSubs[n].name))

\* t replaced {a} by "{b}" and then {b} by 42; the other iteration order
\* gives another result
OrderDependentCase ==
    /\ lastOp = "t"
    /\ Len(lastSubs) = 2
    /\ lastSubs[1].name = NA
    /\ lastSubs[2].name = NB
    /\ FindMessage(lastKey) = Str(<<"H", "i", " ", "{", "a", "}", "!">>)
    /\ result = Str(<<"H", "i", " ", "4", "2", "!">>)
    /\ result /= FormatMessage(FindMessage(lastKey), <<lastSubs[2], lastSubs[1]>>)

====
